---- MODULE Spec2Model ----
(***************************************************************************)
(* Beat-to-chart derivation engine of the rhythm-game chart tools:         *)
(*   utils/chart_generator.py  generate_chart                              *)
(*   utils/beat_detection.py   combine_beats_and_onsets, normalize_energies*)
(*                                                                         *)
(* Numbers.  Python floats are modelled by exact integers on grids whose   *)
(* points are binary fractions, so that the float subtraction, comparison  *)
(* and rounding of the code are exact on every modelled input:             *)
(*   - a time is an integer count of units of 1/(2^11 * 1000) s; input     *)
(*     times lie on the tick grid (1 tick = 2^-11 s = TickUnits units),    *)
(*     rounded times on the millisecond grid (1 ms = MsUnits units);       *)
(*   - a normalized energy or threshold n stands for n / NormDen;          *)
(*   - a velocity v stands for v / 100.                                    *)
(* round(x, 3), round(x, 2) and numpy.round(x, 3) round to nearest, ties   *)
(* to even, on such inputs.                                                *)
(***************************************************************************)
EXTENDS Integers, Sequences, FiniteSets

\* ------------------------------------------------------------------ bounds
MaxTick == 3
MaxInterval == 3
MaxEvents == 2
MaxBeats == 2
MaxOnsets == 2
MaxTolerance == 3
MaxEnergy == 2
MaxNormEvents == 2
MaxFilterNotes == 3
MaxFilterTime == 2
MaxChartNotes == 2
MaxStep == 3
MaxAnalysisEvents == 3
MaxHop == 1
MaxSlack == 3
MaxSpacedEvents == 3

\* ------------------------------------------------------------------- units
TickUnits == 10^3
MsUnits == 2^11
NormDen == 2^3
StepUnits == 2^7 * 10^3

\* Input domains.  Event times and min_interval lie on the tick grid; the
\* normalized energies are 0.375, 0.625 and 1.0 and the thresholds 0.375 and
\* 0.625, so that an energy can be below, equal to and above a threshold and
\* round(., 2) changes it (0.38, 0.62); a mapping is the conventional one or a
\* reassignment of the three labels.
Ticks == {k * TickUnits : k \in 0..MaxTick}
Intervals == {k * TickUnits : k \in 0..MaxInterval}
NormLevels == {3, 5, NormDen}
ThresholdLevels == {3, 5}
Mappings ==
  { [kick |-> "both", snare |-> "right", hihat |-> "left"],
    [kick |-> "left", snare |-> "both", hihat |-> "right"] }

\* Beat times, onset times and the tolerance lie on the tick grid too; the
\* lists may be unsorted and hold duplicates.
Tolerances == {k * TickUnits : k \in 0..MaxTolerance}

\* Sequences over S of length at most n.
SeqsUpTo(S, n) == UNION {[1..k -> S] : k \in 0..n}

VARIABLES
  \* generate_chart
  difficulty_config, mapping, event, scanned, branch, last_time, notes,
  \* combine_beats_and_onsets
  beat_times, onset_times, tolerance, combined_times, beat_idx, fuse_pc,
  call, first_result,
  \* normalize_energies
  drum_events, max_kick, max_snare, max_hihat, norm_pc,
  \* 2_analyze_beats main
  main_pc, analysis_file,
  \* apply_density_filter
  input_notes, target_density, filtered_notes, filter_pc,
  \* validate_chart
  chart_notes, audio_duration, issues, validate_pc,
  \* generate_for_difficulty
  analysis_data, metadata, config, chart, found_issues, chart_file, gen_pc

chartVars == <<difficulty_config, mapping, event, scanned, branch, last_time, notes>>
fuseVars == <<beat_times, onset_times, tolerance, combined_times, beat_idx,
              fuse_pc, call, first_result>>
normVars == <<drum_events, max_kick, max_snare, max_hihat, norm_pc>>
mainVars == <<main_pc, analysis_file>>
filterVars == <<input_notes, target_density, filtered_notes, filter_pc>>
validateVars == <<chart_notes, audio_duration, issues, validate_pc>>
generateVars == <<analysis_data, metadata, config, chart, found_issues, chart_file, gen_pc>>
vars == <<chartVars, fuseVars, normVars, mainVars, filterVars, validateVars, generateVars>>

\* ------------------------------------------------------------- conversions
\* x / d rounded to the nearest integer, ties to the even one (d > 0).
RoundHalfEven(x, d) ==
  LET q == x \div d
      r == x % d
  IN  IF 2 * r < d THEN q
      ELSE IF 2 * r > d THEN q + 1
      ELSE IF q % 2 = 0 THEN q ELSE q + 1

\* round(time, 3): a time in units, rounded to the millisecond grid.
RoundMs(t) == MsUnits * RoundHalfEven(t, MsUnits)

\* round(velocity, 2): a normalized energy n / NormDen, in hundredths.
RoundVelocity(n) == RoundHalfEven(n * 100, NormDen)

\* ---------------------------------------------------------- generate_chart
\* last_time = -999.0
Sentinel == (0 - 999) * 1000 * MsUnits

thresholds ==
  [kick |-> difficulty_config.kick_threshold,
   snare |-> difficulty_config.snare_threshold,
   hihat |-> difficulty_config.hihat_threshold]

min_interval == difficulty_config.min_interval

\* Mutant of TooClose: the comparison made inclusive.
TooCloseInclusive(time, last, interval) == time - last <= interval

\* if time - last_time < min_interval: continue
TooClose(time, last, interval) == time - last < interval

\* The local velocity after the chain (0 when no branch is taken).
Velocity(e, th) ==
  IF e.kick_energy_norm > th.kick THEN e.kick_energy_norm
  ELSE IF e.snare_energy_norm > th.snare THEN e.snare_energy_norm
  ELSE IF e.hihat_energy_norm > th.hihat THEN e.hihat_energy_norm
  ELSE 0

\* Mutant of NoteType: the snare branch tested before the kick branch.
NoteTypeSnareFirst(e, th, m) ==
  IF e.snare_energy_norm > th.snare THEN m.snare
  ELSE IF e.kick_energy_norm > th.kick THEN m.kick
  ELSE IF e.hihat_energy_norm > th.hihat THEN m.hihat
  ELSE "None"

\* The local note_type after the if / elif / elif chain; "None" when no branch
\* is taken.  Every label of a mapping is a non-empty string, so
\* "if note_type:" tests exactly note_type # "None".
NoteType(e, th, m) ==
  IF e.kick_energy_norm > th.kick THEN m.kick
  ELSE IF e.snare_energy_norm > th.snare THEN m.snare
  ELSE IF e.hihat_energy_norm > th.hihat THEN m.hihat
  ELSE "None"

\* The appended dict.
Note(time, note_type, velocity) ==
  [time |-> RoundMs(time), type |-> note_type, velocity |-> RoundVelocity(velocity)]

\* Mutant of NextLastTime: last_time is never advanced.
NextLastTimeStale(e, note_type, last) == last

\* Mutant of NextLastTime: last_time advanced by every event that passes the
\* spacing check, classified or not.
NextLastTimeAlways(e, note_type, last) == e.time

\* last_time after one iteration on event e that was not skipped:
\* "last_time = time" runs only inside "if note_type:".
NextLastTime(e, note_type, last) == IF note_type # "None" THEN e.time ELSE last

NoEvent ==
  [time |-> 0, kick_energy_norm |-> 0, snare_energy_norm |-> 0, hihat_energy_norm |-> 0]

\* generate_chart is not running.
ChartIdle ==
  /\ difficulty_config =
       [kick_threshold |-> 0, snare_threshold |-> 0, hihat_threshold |-> 0,
        min_interval |-> 0]
  /\ mapping = [kick |-> "both", snare |-> "right", hihat |-> "left"]
  /\ event = NoEvent
  /\ scanned = 0
  /\ branch = "idle"
  /\ last_time = Sentinel
  /\ notes = <<>>

\* combine_beats_and_onsets is not running.
FuseIdle ==
  /\ beat_times = <<>>
  /\ onset_times = <<>>
  /\ tolerance = 0
  /\ combined_times = <<>>
  /\ beat_idx = 0
  /\ fuse_pc = "idle"
  /\ call = 0
  /\ first_result = <<>>

\* normalize_energies is not running.
NormIdle ==
  /\ drum_events = <<>>
  /\ max_kick = 0
  /\ max_snare = 0
  /\ max_hihat = 0
  /\ norm_pc = "idle"

\* The analysis run is not running; no analysis file has been written.
NoAnalysisFile == [exists |-> FALSE, drum_events |-> <<>>]

MainIdle ==
  /\ main_pc = "idle"
  /\ analysis_file = NoAnalysisFile

\* apply_density_filter is not running.
FilterIdle ==
  /\ input_notes = <<>>
  /\ target_density = [num |-> 1, den |-> 1]
  /\ filtered_notes = <<>>
  /\ filter_pc = "idle"

\* validate_chart is not running.
ValidateIdle ==
  /\ chart_notes = <<>>
  /\ audio_duration = 0
  /\ issues = <<>>
  /\ validate_pc = "idle"

\* No chart: the value of chart before generate_chart has returned, and the
\* content of a chart file that does not exist.
NoChart ==
  [notes |-> <<>>,
   metadata |-> [generatedBy |-> "nobody", noteCount |-> 0, leftCount |-> 0,
                 rightCount |-> 0, bothCount |-> 0, averageInterval |-> 0]]

NoConfig ==
  [difficulty_config |->
     [kick_threshold |-> 0, snare_threshold |-> 0, hihat_threshold |-> 0,
      min_interval |-> 0, note_density |-> [num |-> 1, den |-> 1]],
   mapping |-> [kick |-> "both", snare |-> "right", hihat |-> "left"]]

\* generate_for_difficulty is not running.
GenerateIdle ==
  /\ analysis_data = [exists |-> FALSE, events |-> <<>>]
  /\ metadata = [exists |-> FALSE, duration |-> 0]
  /\ config = NoConfig
  /\ chart = NoChart
  /\ found_issues = <<>>
  /\ chart_file = [exists |-> FALSE, chart |-> NoChart]
  /\ gen_pc = "idle"

ChartInit ==
  /\ FuseIdle
  /\ NormIdle
  /\ MainIdle
  /\ FilterIdle
  /\ ValidateIdle
  /\ GenerateIdle
  /\ difficulty_config \in
       [kick_threshold : ThresholdLevels, snare_threshold : ThresholdLevels,
        hihat_threshold : ThresholdLevels, min_interval : Intervals]
  /\ mapping \in Mappings
  /\ event = NoEvent
  /\ scanned = 0
  /\ branch = "start"
  /\ last_time = Sentinel
  /\ notes = <<>>

\* One iteration of "for event in drum_events" on the next event of a
\* time-ascending input.
ScanEvent ==
  /\ scanned < MaxEvents
  /\ \E t \in Ticks, k \in NormLevels, s \in NormLevels, h \in NormLevels :
       LET e == [time |-> t, kick_energy_norm |-> k, snare_energy_norm |-> s,
                 hihat_energy_norm |-> h]
           note_type == NoteType(e, thresholds, mapping)
           velocity == Velocity(e, thresholds)
       IN  /\ t >= event.time
           /\ event' = e
           /\ scanned' = scanned + 1
           /\ IF TooClose(t, last_time, min_interval)
              THEN /\ branch' = "continue"
                   /\ UNCHANGED <<last_time, notes>>
              ELSE IF note_type # "None"
              THEN /\ branch' = "note"
                   /\ notes' = Append(notes, Note(t, note_type, velocity))
                   /\ last_time' = NextLastTime(e, note_type, last_time)
              ELSE /\ branch' = "none"
                   /\ notes' = notes
                   /\ last_time' = NextLastTime(e, note_type, last_time)
  /\ UNCHANGED <<difficulty_config, mapping>>
  /\ UNCHANGED <<fuseVars, normVars, mainVars, filterVars, validateVars, generateVars>>

ChartNext == ScanEvent

SpecChart == ChartInit /\ [][ChartNext]_vars

\* ------------------------------------------------ combine_beats_and_onsets
Abs(x) == IF x < 0 THEN 0 - x ELSE x

Range(seq) == {seq[i] : i \in 1..Len(seq)}

\* sorted(S) of a set of numbers.
RECURSIVE SortedSeq(_)
SortedSeq(S) ==
  IF S = {} THEN <<>>
  ELSE LET m == CHOOSE x \in S : \A y \in S : x <= y
       IN  <<m>> \o SortedSeq(S \ {m})

\* sorted(seq) of a list of numbers, duplicates kept.
RECURSIVE SortedList(_)
SortedList(seq) ==
  IF seq = <<>> THEN <<>>
  ELSE LET i == CHOOSE j \in 1..Len(seq) : \A k \in 1..Len(seq) : seq[j] <= seq[k]
       IN  <<seq[i]>> \o SortedList(SubSeq(seq, 1, i - 1) \o SubSeq(seq, i + 1, Len(seq)))

\* np.round(combined_times, 3)
RoundAll(seq) == [i \in 1..Len(seq) |-> RoundMs(seq[i])]

\* Mutant of BaseList: the beats taken as the base list.
BaseListBeats(beats, onsets) == beats

\* combined_times = list(onset_times)
BaseList(beats, onsets) == onsets

\* Mutant of HasNearbyOnset: the comparison made inclusive.
HasNearbyOnsetInclusive(beat_time, onsets, tol) ==
  \E i \in 1..Len(onsets) : Abs(beat_time - onsets[i]) <= tol

\* any(abs(beat_time - onset) < tolerance for onset in onset_times)
HasNearbyOnset(beat_time, onsets, tol) ==
  \E i \in 1..Len(onsets) : Abs(beat_time - onsets[i]) < tol

\* Mutant of AppendBeat: nearness tested against the list being built.
AppendBeatVsCombined(combined, beat_time, onsets, tol) ==
  IF HasNearbyOnset(beat_time, combined, tol) THEN combined
  ELSE Append(combined, beat_time)

\* if not has_nearby_onset: combined_times.append(beat_time)
AppendBeat(combined, beat_time, onsets, tol) ==
  IF HasNearbyOnset(beat_time, onsets, tol) THEN combined
  ELSE Append(combined, beat_time)

\* Mutant of Finish: the rounding left out.
FinishUnrounded(combined) == SortedSeq(Range(combined))

\* Mutant of Finish: the set() left out.
FinishNoDedup(combined) == SortedList(RoundAll(combined))

\* combined_times = sorted(set(np.round(combined_times, 3)))
Finish(combined) == SortedSeq(Range(RoundAll(combined)))

FuseInit ==
  /\ ChartIdle
  /\ NormIdle
  /\ MainIdle
  /\ FilterIdle
  /\ ValidateIdle
  /\ GenerateIdle
  /\ beat_times \in SeqsUpTo(Ticks, MaxBeats)
  /\ onset_times \in SeqsUpTo(Ticks, MaxOnsets)
  /\ tolerance \in Tolerances
  /\ combined_times = <<>>
  /\ beat_idx = 0
  /\ fuse_pc = "start"
  /\ call = 1
  /\ first_result = <<>>

\* combined_times = list(onset_times)
FuseBase ==
  /\ fuse_pc = "start"
  /\ combined_times' = BaseList(beat_times, onset_times)
  /\ beat_idx' = 0
  /\ fuse_pc' = IF Len(beat_times) = 0 THEN "round" ELSE "loop"
  /\ UNCHANGED <<beat_times, onset_times, tolerance, call, first_result>>
  /\ UNCHANGED <<chartVars, normVars, mainVars, filterVars, validateVars, generateVars>>

\* One iteration of "for beat_time in beat_times".
FuseBeat ==
  /\ fuse_pc = "loop"
  /\ combined_times' =
       AppendBeat(combined_times, beat_times[beat_idx + 1], onset_times, tolerance)
  /\ beat_idx' = beat_idx + 1
  /\ fuse_pc' = IF beat_idx + 1 = Len(beat_times) THEN "round" ELSE "loop"
  /\ UNCHANGED <<beat_times, onset_times, tolerance, call, first_result>>
  /\ UNCHANGED <<chartVars, normVars, mainVars, filterVars, validateVars, generateVars>>

\* The rounding, set() and sorted() of the merged list, and the return.
FuseFinish ==
  /\ fuse_pc = "round"
  /\ combined_times' = Finish(combined_times)
  /\ fuse_pc' = "done"
  /\ UNCHANGED <<beat_times, onset_times, tolerance, beat_idx, call, first_result>>
  /\ UNCHANGED <<chartVars, normVars, mainVars, filterVars, validateVars, generateVars>>

\* A second call, on the first call's result as the beat times, no onsets
\* and the same tolerance.
FuseAgain ==
  /\ fuse_pc = "done"
  /\ call = 1
  /\ first_result' = combined_times
  /\ beat_times' = combined_times
  /\ onset_times' = <<>>
  /\ combined_times' = <<>>
  /\ beat_idx' = 0
  /\ fuse_pc' = "start"
  /\ call' = 2
  /\ UNCHANGED tolerance
  /\ UNCHANGED <<chartVars, normVars, mainVars, filterVars, validateVars, generateVars>>

FuseNext == FuseBase \/ FuseBeat \/ FuseFinish \/ FuseAgain

SpecFuse == FuseInit /\ [][FuseNext]_vars

\* ------------------------------------------------------ normalize_energies
\* A raw band energy is a non-negative integer; the quotient a / b of two of
\* them is kept exact, as the pair of its numerator and denominator.  The
\* float quotient is 1.0 exactly when a = b, 0.0 exactly when a = 0, and lies
\* between the two otherwise.
Energies == 0..MaxEnergy
RawEvents == [kick_energy : Energies, snare_energy : Energies, hihat_energy : Energies]

Quotient(a, b) == [num |-> a, den |-> b]

\* max(e[band] for e in drum_events), of a non-empty list.
MaxOf(events, band) ==
  CHOOSE m \in {events[i][band] : i \in 1..Len(events)} :
    \A i \in 1..Len(events) : events[i][band] <= m

\* Mutant of OrOne: the substitution left out.
OrOneMissing(m) == m

\* m or 1.0
OrOne(m) == IF m = 0 THEN 1 ELSE m

NormInit ==
  /\ ChartIdle
  /\ FuseIdle
  /\ MainIdle
  /\ FilterIdle
  /\ ValidateIdle
  /\ GenerateIdle
  /\ drum_events \in SeqsUpTo(RawEvents, MaxNormEvents)
  /\ max_kick = 0
  /\ max_snare = 0
  /\ max_hihat = 0
  /\ norm_pc = "start"

\* The three maxima; max() of an empty generator raises ValueError.
ComputeMax ==
  /\ norm_pc = "start"
  /\ IF drum_events = <<>>
     THEN /\ norm_pc' = "raised"
          /\ UNCHANGED <<max_kick, max_snare, max_hihat>>
     ELSE /\ max_kick' = OrOne(MaxOf(drum_events, "kick_energy"))
          /\ max_snare' = OrOne(MaxOf(drum_events, "snare_energy"))
          /\ max_hihat' = OrOne(MaxOf(drum_events, "hihat_energy"))
          /\ norm_pc' = "maxed"
  /\ UNCHANGED drum_events
  /\ UNCHANGED <<chartVars, fuseVars, mainVars, filterVars, validateVars, generateVars>>

\* The loop that stores the three quotients in every event, and the return;
\* a division by zero raises ZeroDivisionError.
NormalizeEvents ==
  /\ norm_pc = "maxed"
  /\ IF max_kick = 0 \/ max_snare = 0 \/ max_hihat = 0
     THEN /\ norm_pc' = "raised"
          /\ UNCHANGED drum_events
     ELSE /\ drum_events' =
               [i \in 1..Len(drum_events) |->
                  [kick_energy |-> drum_events[i].kick_energy,
                   snare_energy |-> drum_events[i].snare_energy,
                   hihat_energy |-> drum_events[i].hihat_energy,
                   kick_energy_norm |-> Quotient(drum_events[i].kick_energy, max_kick),
                   snare_energy_norm |-> Quotient(drum_events[i].snare_energy, max_snare),
                   hihat_energy_norm |-> Quotient(drum_events[i].hihat_energy, max_hihat)]]
          /\ norm_pc' = "done"
  /\ UNCHANGED <<max_kick, max_snare, max_hihat>>
  /\ UNCHANGED <<chartVars, fuseVars, mainVars, filterVars, validateVars, generateVars>>

NormNext == ComputeMax \/ NormalizeEvents

SpecNorm == NormInit /\ [][NormNext]_vars

\* ------------------------------------------------- 2_analyze_beats: main
\* The run from the call of normalize_energies on: drum_events is what
\* analyze_drum_hits returned, one event per candidate timestamp, so it is
\* empty exactly when no timestamp was detected.
AnalyzeInit ==
  /\ ChartIdle
  /\ FuseIdle
  /\ FilterIdle
  /\ ValidateIdle
  /\ GenerateIdle
  /\ drum_events \in SeqsUpTo(RawEvents, MaxNormEvents)
  /\ max_kick = 0
  /\ max_snare = 0
  /\ max_hihat = 0
  /\ norm_pc = "start"
  /\ main_pc = "normalize"
  /\ analysis_file = NoAnalysisFile

\* main has no handler around normalize_energies: what it raises ends the run.
MainPropagate ==
  /\ main_pc = "normalize"
  /\ norm_pc = "raised"
  /\ main_pc' = "raised"
  /\ UNCHANGED analysis_file
  /\ UNCHANGED <<chartVars, fuseVars, normVars, filterVars, validateVars, generateVars>>

\* json.dump of the analysis with the normalized events.
SaveAnalysis ==
  /\ main_pc = "normalize"
  /\ norm_pc = "done"
  /\ analysis_file' = [exists |-> TRUE, drum_events |-> drum_events]
  /\ main_pc' = "saved"
  /\ UNCHANGED <<chartVars, fuseVars, normVars, filterVars, validateVars, generateVars>>

\* The printed statistics divide by len(drum_events).
PrintStatistics ==
  /\ main_pc = "saved"
  /\ main_pc' = IF Len(drum_events) = 0 THEN "raised" ELSE "done"
  /\ UNCHANGED analysis_file
  /\ UNCHANGED <<chartVars, fuseVars, normVars, filterVars, validateVars, generateVars>>

AnalyzeNext ==
  ComputeMax \/ NormalizeEvents \/ MainPropagate \/ SaveAnalysis \/ PrintStatistics

SpecAnalyze == AnalyzeInit /\ [][AnalyzeNext]_vars

\* --------------------------------------------------- apply_density_filter
\* A density is the fraction num / den of thirds or quarters in (0, 1]; for
\* these, and the list lengths used here, the float product len(notes) * d
\* truncates to the floor of the exact product.
Densities == {d \in [num : 1..4, den : {3, 4}] : d.num <= d.den}

\* Notes as generate_chart writes them: whole seconds here, velocities in
\* hundredths.
FilterTimes == {k * 1000 * MsUnits : k \in 0..MaxFilterTime}
FilterVelocities == {20, 70, 90}
FilterNotes == [time : FilterTimes, type : {"left", "right"}, velocity : FilterVelocities]

NonDecreasingTime(seq) == \A i \in 1..Len(seq) - 1 : seq[i].time <= seq[i + 1].time

Max(a, b) == IF a >= b THEN a ELSE b

Remove(seq, i) == SubSeq(seq, 1, i - 1) \o SubSeq(seq, i + 1, Len(seq))

\* Mutant of TargetCount: without the lower limit of one note.
TargetCountNoLimit(n, d) == (n * d.num) \div d.den

\* target_count = max(1, int(len(notes) * target_density))
TargetCount(n, d) == Max(1, (n * d.num) \div d.den)

\* Mutant of FirstMaxVelocity: among equal velocities the last one first.
LastMaxVelocity(seq) ==
  CHOOSE i \in 1..Len(seq) :
    \A j \in 1..Len(seq) :
      /\ seq[j].velocity <= seq[i].velocity
      /\ j > i => seq[j].velocity < seq[i].velocity

\* The position sorted(..., reverse=True) puts first: the sort is stable, so
\* among equal velocities the one earliest in the list.
FirstMaxVelocity(seq) ==
  CHOOSE i \in 1..Len(seq) :
    \A j \in 1..Len(seq) :
      /\ seq[j].velocity <= seq[i].velocity
      /\ j < i => seq[j].velocity < seq[i].velocity

\* sorted(notes, key=lambda n: n["velocity"], reverse=True)
RECURSIVE SortedByVelocity(_)
SortedByVelocity(seq) ==
  IF seq = <<>> THEN <<>>
  ELSE LET i == FirstMaxVelocity(seq)
       IN  <<seq[i]>> \o SortedByVelocity(Remove(seq, i))

\* The stable sort's first element: the earliest of the smallest times.
FirstMinTime(seq) ==
  CHOOSE i \in 1..Len(seq) :
    \A j \in 1..Len(seq) :
      /\ seq[i].time <= seq[j].time
      /\ j < i => seq[i].time < seq[j].time

\* Mutant of SortedByTime: the selection left in velocity order.
SortedByTimeMissing(seq) == seq

\* sorted(selected_notes, key=lambda n: n["time"])
RECURSIVE SortedByTime(_)
SortedByTime(seq) ==
  IF seq = <<>> THEN <<>>
  ELSE LET i == FirstMinTime(seq)
       IN  <<seq[i]>> \o SortedByTime(Remove(seq, i))

\* Mutant of Prefix: the first note taken as many times.
PrefixRepeated(seq, n) == [i \in 1..(IF n < Len(seq) THEN n ELSE Len(seq)) |-> seq[1]]

\* sorted_notes[:target_count]
Prefix(seq, n) == SubSeq(seq, 1, IF n < Len(seq) THEN n ELSE Len(seq))

\* apply_density_filter(notes, target_density)
DensityFilter(ns, d) ==
  IF d.num >= d.den THEN ns
  ELSE SortedByTime(Prefix(SortedByVelocity(ns), TargetCount(Len(ns), d)))

FilterInit ==
  /\ ChartIdle
  /\ FuseIdle
  /\ NormIdle
  /\ MainIdle
  /\ ValidateIdle
  /\ GenerateIdle
  /\ input_notes \in {s \in SeqsUpTo(FilterNotes, MaxFilterNotes) : NonDecreasingTime(s)}
  /\ target_density \in Densities
  /\ filtered_notes = <<>>
  /\ filter_pc = "start"

\* The call, from entry to return.
ApplyDensityFilter ==
  /\ filter_pc = "start"
  /\ filtered_notes' = DensityFilter(input_notes, target_density)
  /\ filter_pc' = "done"
  /\ UNCHANGED <<input_notes, target_density>>
  /\ UNCHANGED <<chartVars, fuseVars, normVars, mainVars, validateVars, generateVars>>

FilterNext == ApplyDensityFilter

SpecFilter == FilterInit /\ [][FilterNext]_vars

\* --------------------------------------------------------- validate_chart
\* The interval below which two consecutive notes are reported, in
\* milliseconds.
ShortIntervalMs == 150

\* The charts validated here may be malformed: their times are on a grid of
\* 1/16 s starting one step before 0, so that a gap is a short one (1/16 s,
\* 1/8 s) or not (3/16 s) and the float subtraction is exact; velocities are
\* hundredths on both sides of 0 and of 1; "up" is no hand label.
StepTimes == {k * StepUnits : k \in (0 - 1)..MaxStep}
Durations == {StepUnits, 2 * StepUnits}
ChartVelocities == {0 - 1, 0, 100, 101}
ChartTypes == {"left", "both", "up"}
ChartNotes == [time : StepTimes, type : ChartTypes, velocity : ChartVelocities]

Issue(check, position) == [check |-> check, note |-> position]

\* A note time is a float.  A time on the tick grid (a multiple of 2^-11 s)
\* is that float exactly; a whole number k of milliseconds off the grid is
\* the double nearest to k / 1000, which round(time, 3) returns and which
\* differs from k / 1000.  With 125 * 2^(j-7) <= k < 250 * 2^(j-7) the double
\* is M * 2^(j-62) with M the integer nearest to k * 2^(59-j) / 125, so its
\* error is a multiple of 2^(j-62) / 125.
RECURSIVE PowMod(_, _, _)
PowMod(b, e, m) ==
  IF e = 0 THEN 1 % m
  ELSE IF e % 2 = 1 THEN (b * PowMod(b, e - 1, m)) % m
  ELSE PowMod((b * b) % m, e \div 2, m)

Binade(k) == CHOOSE j \in 0..20 : 125 * 2^j <= 128 * k /\ 128 * k < 250 * 2^j

\* float(k / 1000) - k / 1000 for a whole number k >= 0 of milliseconds, in
\* units of 2^-62 / 125.
RepError(k) ==
  IF k = 0 THEN 0
  ELSE LET j == Binade(k)
           r == (k * PowMod(2, 59 - j, 125)) % 125
       IN  2^j * (IF 2 * r < 125 THEN 0 - r ELSE 125 - r)

\* Whether the mantissa of float(k / 1000) is odd, for 125 <= k < 250.
MantissaOdd(k) ==
  LET x == (k * PowMod(2, 52, 250)) % 250
  IN  ((x \div 125) % 2 = 1) # (2 * (x % 125) > 125)

\* The error of the float of a note time t (in units of time).
FloatError(t) == IF t % TickUnits = 0 THEN 0 ELSE RepError(t \div MsUnits)

\* interval = note["time"] - notes[i-1]["time"]; interval < 0.15, in floats:
\* the difference of the two floats, rounded to a float (to the nearest
\* multiple of 2^-55, ties to the even mantissa), against float(0.15).  Only
\* when the times are exactly 0.15 s apart do the errors decide.
IntervalShort(previous, time) ==
  LET limit == ShortIntervalMs * MsUnits
      excess == 2 * (FloatError(time) - FloatError(previous) - RepError(ShortIntervalMs))
      half == 0 - 125 * 2^7
  IN  IF time - previous # limit THEN time - previous < limit
      ELSE IF excess # half THEN excess < half
      ELSE MantissaOdd(ShortIntervalMs)

\* if condition: issues.append(...)
Reported(condition, check, position) ==
  IF condition THEN <<Issue(check, position)>> ELSE <<>>

\* Mutant of NoteIssues: the checks chained, the first failing check of a
\* note ending the checks of that note.
NoteIssuesChained(ns, i, duration) ==
  LET note == ns[i]
  IN  IF note.time < 0 THEN <<Issue("negative_time", i)>>
      ELSE IF note.time > duration THEN <<Issue("beyond_duration", i)>>
      ELSE IF ~(0 <= note.velocity /\ note.velocity <= 100)
      THEN <<Issue("velocity_range", i)>>
      ELSE IF note.type \notin {"left", "right", "both"}
      THEN <<Issue("invalid_type", i)>>
      ELSE IF i > 1 /\ IntervalShort(ns[i - 1].time, note.time)
      THEN <<Issue("interval_short", i)>>
      ELSE <<>>

\* The body of "for i, note in enumerate(notes)" for the note at position i.
NoteIssues(ns, i, duration) ==
  LET note == ns[i]
  IN  Reported(note.time < 0, "negative_time", i)
      \o Reported(note.time > duration, "beyond_duration", i)
      \o Reported(~(0 <= note.velocity /\ note.velocity <= 100), "velocity_range", i)
      \o Reported(note.type \notin {"left", "right", "both"}, "invalid_type", i)
      \o (IF i > 1
          THEN Reported(IntervalShort(ns[i - 1].time, note.time), "interval_short", i)
          ELSE <<>>)

\* The issues of the notes at positions 1..i, in the order of the appends.
RECURSIVE IssuesUpTo(_, _, _)
IssuesUpTo(ns, i, duration) ==
  IF i = 0 THEN <<>>
  ELSE IssuesUpTo(ns, i - 1, duration) \o NoteIssues(ns, i, duration)

\* Mutant of EmptyChartIssues: an empty chart passes.
EmptyChartIssuesNone == <<>>

\* if not notes: issues.append(...); return issues
EmptyChartIssues == <<Issue("empty", 0)>>

\* validate_chart(chart, audio_duration), for chart["notes"] = ns
ValidateChart(ns, duration) ==
  IF ns = <<>> THEN EmptyChartIssues ELSE IssuesUpTo(ns, Len(ns), duration)

ValidateInit ==
  /\ ChartIdle
  /\ FuseIdle
  /\ NormIdle
  /\ MainIdle
  /\ FilterIdle
  /\ GenerateIdle
  /\ chart_notes \in SeqsUpTo(ChartNotes, MaxChartNotes)
  /\ audio_duration \in Durations
  /\ issues = <<>>
  /\ validate_pc = "start"

\* The call, from entry to return.
Validate ==
  /\ validate_pc = "start"
  /\ issues' = ValidateChart(chart_notes, audio_duration)
  /\ validate_pc' = "returned"
  /\ UNCHANGED <<chart_notes, audio_duration>>
  /\ UNCHANGED <<chartVars, fuseVars, normVars, mainVars, filterVars, generateVars>>

ValidateNext == Validate

SpecValidate == ValidateInit /\ [][ValidateNext]_vars

\* -------------------------------------------- generate_chart, as one call
\* The loop over a whole event list: the notes after the events from
\* position i on, given last_time and the notes appended so far.
RECURSIVE ScanFrom(_, _, _, _, _, _)
ScanFrom(events, i, last, appended, cfg, m) ==
  IF i > Len(events) THEN appended
  ELSE LET e == events[i]
           th == [kick |-> cfg.kick_threshold, snare |-> cfg.snare_threshold,
                  hihat |-> cfg.hihat_threshold]
           note_type == NoteType(e, th, m)
       IN  IF TooClose(e.time, last, cfg.min_interval)
           THEN ScanFrom(events, i + 1, last, appended, cfg, m)
           ELSE ScanFrom(events, i + 1, NextLastTime(e, note_type, last),
                         IF note_type # "None"
                         THEN Append(appended, Note(e.time, note_type, Velocity(e, th)))
                         ELSE appended,
                         cfg, m)

\* Mutant of CountType: every note counted, whatever its type.
CountTypeAny(ns, label) == Len(ns)

\* sum(1 for n in notes if n["type"] == label)
CountType(ns, label) == Cardinality({i \in 1..Len(ns) : ns[i].type = label})

RECURSIVE Sum(_)
Sum(seq) == IF seq = <<>> THEN 0 ELSE Head(seq) + Sum(Tail(seq))

\* [notes[i]["time"] - notes[i-1]["time"] for i in range(1, len(notes))]
Gaps(ns) == [i \in 1..Len(ns) - 1 |-> ns[i + 1].time - ns[i].time]

\* The gaps are differences of floats and np.mean adds and divides floats,
\* so the mean that is rounded is a float.  A float of this computation is
\* written (k, e, n): the number (k * 2^62 + e) / n in units of
\* 2^-65 / 125, that is k / n milliseconds and an error e / n.
RECURSIVE TwoPower(_)
TwoPower(n) == IF n % 2 = 0 THEN 1 + TwoPower(n \div 2) ELSE 0
OddPart(n) == n \div 2^TwoPower(n)

\* The floats around k / n milliseconds are the multiples of
\* 125 * 2^FloatBinade units: 125 * n * 2^j <= 1024 * k < 250 * n * 2^j,
\* and one binade lower just below a power of two.
FloatBinade(k, e, n) ==
  LET j == CHOOSE i \in 0..20 :
             125 * n * 2^i <= 1024 * k /\ 1024 * k < 250 * n * 2^i
  IN  IF 1024 * k = 125 * n * 2^j /\ e < 0 THEN j - 1 ELSE j

\* (k * 2^62 + e) modulo 125 * m * 2^p
Residue(k, e, p, m) ==
  (2^p * ((k * PowMod(2, 62 - p, 125 * m)) % (125 * m)) + e) % (125 * m * 2^p)

\* The error of the float nearest to (k, e, n) for k > 0, ties to the even
\* mantissa: what a float subtraction, addition or division rounds to.
NearestPositive(k, e, n) ==
  LET p == FloatBinade(k, e, n) + TwoPower(n)
      m == OddPart(n)
      ulp == 125 * m * 2^p
      r == Residue(k, e, p, m)
      odd == Residue(k, e, p + 1, m) >= ulp
  IN  IF 2 * r < ulp \/ (2 * r = ulp /\ ~odd) THEN e - r ELSE e + ulp - r

NearestFloat(k, e, n) ==
  IF k = 0 THEN e
  ELSE IF k < 0 THEN 0 - NearestPositive(0 - k, 0 - e, n)
  ELSE NearestPositive(k, e, n)

\* notes[i]["time"] - notes[i-1]["time"], the note times being the floats
\* of whole milliseconds
FloatGaps(ns) ==
  [i \in 1..Len(ns) - 1 |->
     LET previous == ns[i].time \div MsUnits
         time == ns[i + 1].time \div MsUnits
     IN  [ms |-> time - previous,
          error |-> NearestFloat(time - previous,
                                 NearestFloat(time, 0, 1)
                                   - NearestFloat(previous, 0, 1), 1)]]

\* a + b in floats
FloatAdd(a, b) ==
  [ms |-> a.ms + b.ms,
   error |-> NearestFloat(a.ms + b.ms, a.error + b.error, 1)]

\* for (...) res += a[i]: count gaps, from gaps[first] on in steps of step,
\* added to s one after the other, each addition rounded
RECURSIVE AddInOrder(_, _, _, _, _)
AddInOrder(s, gaps, first, step, count) ==
  IF count = 0 THEN s
  ELSE AddInOrder(FloatAdd(s, gaps[first]), gaps, first + step, step, count - 1)

\* numpy's pairwise summation of the n >= 1 gaps from gaps[first] on.  Fewer
\* than 8 gaps are added in order.  Up to 128 gaps are added in eight lanes
\* (lane j takes the gaps j, j + 8, j + 16, ... of the whole blocks of 8),
\* the lanes are added as ((r0 + r1) + (r2 + r3)) + ((r4 + r5) + (r6 + r7)),
\* and the gaps left over after the last whole block are added in order.
\* More than 128 gaps are split in two, the first part the largest multiple
\* of 8 not above half of them, and the two sums are added.
RECURSIVE PairwiseSum(_, _, _)
PairwiseSum(gaps, first, n) ==
  IF n < 8 THEN AddInOrder(gaps[first], gaps, first + 1, 1, n - 1)
  ELSE IF n <= 128
  THEN LET blocks == n \div 8
           r == [j \in 0..7 |->
                   AddInOrder(gaps[first + j], gaps, first + 8 + j, 8, blocks - 1)]
           res == FloatAdd(FloatAdd(FloatAdd(r[0], r[1]), FloatAdd(r[2], r[3])),
                           FloatAdd(FloatAdd(r[4], r[5]), FloatAdd(r[6], r[7])))
       IN  AddInOrder(res, gaps, first + 8 * blocks, 1, n % 8)
  ELSE LET n2 == (n \div 2) - ((n \div 2) % 8)
       IN  FloatAdd(PairwiseSum(gaps, first, n2),
                    PairwiseSum(gaps, first + n2, n - n2))

\* The sum np.mean divides: np.add.reduce over the n gaps, in floats.
FloatSum(gaps, n) == PairwiseSum(gaps, 1, n)

\* rint(mean * 1000) for a float mean whose exact value is x + 1/2
\* milliseconds (x >= 0; a negative mean is the mirror image) and whose error
\* is e / n: the product is a float
\* again, x + 1/2 itself when 1000 times the error is at most half the
\* spacing 2^(b-52) of the floats at x + 1/2 (2^b <= x + 1/2 < 2^(b+1), half
\* that spacing below 1/2), and then rint goes to the even neighbour; else
\* the sign of the error decides.
RintOfTie(x, e, n) ==
  LET b == CHOOSE i \in (0 - 1)..20 : 2^(i + 1) <= 2 * x + 1 /\ 2 * x + 1 < 2^(i + 2)
      spacing == IF x = 0 /\ e < 0 THEN n * 2^(b + 9) ELSE n * 2^(b + 10)
  IN  IF 2 * Abs(e) <= spacing THEN (IF x % 2 = 0 THEN x ELSE x + 1)
      ELSE IF e > 0 THEN x + 1 ELSE x

\* round(np.mean(gaps), 3) if len(notes) > 1 else 0, in units: numpy's
\* round, rint(mean * 1000) / 1000.  A mean that is no tie goes to the
\* nearest millisecond whatever its error; a mean of x + 1/2 milliseconds
\* goes where the error of the float mean sends it.
AverageInterval(ns) ==
  IF Len(ns) > 1
  THEN LET n == Len(Gaps(ns))
           ms == Sum(Gaps(ns)) \div MsUnits
       IN  IF (2 * ms) % (2 * n) # n
           THEN MsUnits * RoundHalfEven(Sum(Gaps(ns)), n * MsUnits)
           ELSE LET e == NearestFloat(ms, FloatSum(FloatGaps(ns), n).error, n)
                IN  IF ms > 0 THEN MsUnits * RintOfTie(ms \div n, e, n)
                    ELSE 0 - MsUnits * RintOfTie((0 - ms) \div n, 0 - e, n)
  ELSE 0

\* chart["metadata"]
ChartMetadata(ns) ==
  [generatedBy |-> "algorithm",
   noteCount |-> Len(ns),
   leftCount |-> CountType(ns, "left"),
   rightCount |-> CountType(ns, "right"),
   bothCount |-> CountType(ns, "both"),
   averageInterval |-> AverageInterval(ns)]

\* generate_chart(drum_events, difficulty_config, mapping, ...)
GeneratedChart(events, cfg, m) ==
  LET ns == ScanFrom(events, 1, Sentinel, <<>>, cfg, m)
  IN  [notes |-> ns, metadata |-> ChartMetadata(ns)]

\* ------------------------------------------------ generate_for_difficulty
\* The events of an analysis file: ascending times at 0, 1, 3, 6, ... ticks
\* (gaps of every length up to MaxTick ticks, so that three events can be a
\* millisecond and more apart as well as within one millisecond), and one
\* of three energy profiles (kick at 1.0, snare at 0.625, hi-hat at 0.625, the
\* other bands at the threshold 0.375 and so not above it).
Profiles == {<<NormDen, 3, 3>>, <<3, 5, 3>>, <<3, 3, 5>>}
AnalysisTimes == {((k * (k + 1)) \div 2) * TickUnits : k \in 0..MaxTick}
AnalysisEvents ==
  {[time |-> t, kick_energy_norm |-> b[1], snare_energy_norm |-> b[2],
    hihat_energy_norm |-> b[3]] : t \in AnalysisTimes, b \in Profiles}
NoteDensities == {[num |-> 1, den |-> 3], [num |-> 2, den |-> 3], [num |-> 1, den |-> 1]}
\* No minimum spacing, one below a millisecond and one above.
MinIntervals == {0, TickUnits, 3 * TickUnits}
Configs ==
  [difficulty_config :
     [kick_threshold : {3}, snare_threshold : {3}, hihat_threshold : {3},
      min_interval : MinIntervals, note_density : NoteDensities],
   mapping : Mappings]
SongDuration == 1000 * MsUnits

\* A chart file left by an earlier run.
EarlierChart ==
  [notes |-> <<>>,
   metadata |-> [generatedBy |-> "earlier run", noteCount |-> 0, leftCount |-> 0,
                 rightCount |-> 0, bothCount |-> 0, averageInterval |-> 0]]

\* Mutant of Present: the existence of the file is not tested.
PresentUntested(file) == TRUE

\* analysis_path.exists(); open(metadata_path) succeeding
Present(file) == file.exists

GenerateInit ==
  /\ ChartIdle
  /\ FuseIdle
  /\ NormIdle
  /\ MainIdle
  /\ FilterIdle
  /\ ValidateIdle
  /\ analysis_data \in
       {[exists |-> FALSE, events |-> <<>>]} \cup
       {[exists |-> TRUE, events |-> es] :
          es \in {s \in SeqsUpTo(AnalysisEvents, MaxAnalysisEvents) :
                    NonDecreasingTime(s)}}
  /\ metadata \in {[exists |-> FALSE, duration |-> 0],
                    [exists |-> TRUE, duration |-> SongDuration]}
  /\ config \in Configs
  /\ chart = NoChart
  /\ found_issues = <<>>
  /\ chart_file \in {[exists |-> FALSE, chart |-> NoChart],
                      [exists |-> TRUE, chart |-> EarlierChart]}
  /\ gen_pc = "start"

\* if not analysis_path.exists(): return False
MissingAnalysis ==
  /\ gen_pc = "start"
  /\ ~Present(analysis_data)
  /\ gen_pc' = "returned False"
  /\ UNCHANGED <<analysis_data, metadata, config, chart, found_issues, chart_file>>
  /\ UNCHANGED <<chartVars, fuseVars, normVars, mainVars, filterVars, validateVars>>

\* open(metadata_path) of a missing file raises FileNotFoundError.
MissingMetadata ==
  /\ gen_pc = "start"
  /\ Present(analysis_data)
  /\ ~Present(metadata)
  /\ gen_pc' = "raised"
  /\ UNCHANGED <<analysis_data, metadata, config, chart, found_issues, chart_file>>
  /\ UNCHANGED <<chartVars, fuseVars, normVars, mainVars, filterVars, validateVars>>

\* chart = generate_chart(analysis_data['events'], difficulty_config, mapping, ...)
GenerateChart ==
  /\ gen_pc = "start"
  /\ Present(analysis_data)
  /\ Present(metadata)
  /\ chart' = GeneratedChart(analysis_data.events, config.difficulty_config,
                             config.mapping)
  /\ gen_pc' = "generated"
  /\ UNCHANGED <<analysis_data, metadata, config, found_issues, chart_file>>
  /\ UNCHANGED <<chartVars, fuseVars, normVars, mainVars, filterVars, validateVars>>

\* if note_density < 1.0: the notes replaced by the filtered ones, and
\* noteCount set to their number.
FilterByDensity ==
  /\ gen_pc = "generated"
  /\ LET note_density == config.difficulty_config.note_density
     IN  IF note_density.num < note_density.den
         THEN LET kept == DensityFilter(chart.notes, note_density)
              IN  chart' = [notes |-> kept,
                            metadata |-> [chart.metadata EXCEPT !.noteCount = Len(kept)]]
         ELSE chart' = chart
  /\ gen_pc' = "filtered"
  /\ UNCHANGED <<analysis_data, metadata, config, found_issues, chart_file>>
  /\ UNCHANGED <<chartVars, fuseVars, normVars, mainVars, filterVars, validateVars>>

\* issues = validate_chart(chart, audio_duration)
ValidateGenerated ==
  /\ gen_pc = "filtered"
  /\ found_issues' = ValidateChart(chart.notes, metadata.duration)
  /\ gen_pc' = "validated"
  /\ UNCHANGED <<analysis_data, metadata, config, chart, chart_file>>
  /\ UNCHANGED <<chartVars, fuseVars, normVars, mainVars, filterVars, validateVars>>

\* json.dump(chart, f); return True
SaveChart ==
  /\ gen_pc = "validated"
  /\ chart_file' = [exists |-> TRUE, chart |-> chart]
  /\ gen_pc' = "returned True"
  /\ UNCHANGED <<analysis_data, metadata, config, chart, found_issues>>
  /\ UNCHANGED <<chartVars, fuseVars, normVars, mainVars, filterVars, validateVars>>

GenerateNext ==
  \/ MissingAnalysis
  \/ MissingMetadata
  \/ GenerateChart
  \/ FilterByDensity
  \/ ValidateGenerated
  \/ SaveChart

SpecGenerate == GenerateInit /\ [][GenerateNext]_vars

\* ------------- generate_for_difficulty on events about 0.15 s apart
\* Event times on the tick grid, from 0 s and from 1 s on, in hops of 307
\* ticks (the whole ticks of 0.15 s) plus a slack of a few ticks, so that
\* two events are just below, or just above, a minimum spacing of 0.150 s or
\* 0.151 s; every event is a kick at 1.0.  The density is 1.0: the chart
\* validated and written is the one generate_chart returned.  With three
\* events there are charts of three notes whose mean gap is half a
\* millisecond off the grid (notes at 0.151, 1.0 and 1.15 s: 0.4995 s), where
\* the error of the float mean decides averageInterval.
SpacedTimes ==
  {b + (h * ((ShortIntervalMs * MsUnits) \div TickUnits) + i) * TickUnits :
     b \in {0, 1000 * MsUnits}, h \in 0..MaxHop, i \in 0..MaxSlack}
SpacedEvents ==
  {[time |-> t, kick_energy_norm |-> NormDen, snare_energy_norm |-> 3,
    hihat_energy_norm |-> 3] : t \in SpacedTimes}
\* One longer analysis: nine kicks 0.08 s to 0.67 s apart, whose notes (0.986,
\* 1.349, 1.548, 2.218, 2.377, 2.817, 3.244, 3.808 and 4.262 s) have eight
\* gaps, which numpy adds in lanes, and a mean gap of 0.4095 s.
NineKicks ==
  [i \in 1..9 |->
     [time |-> <<2019, 2763, 3170, 4542, 4868, 5769, 6644, 7799, 8729>>[i] * TickUnits,
      kick_energy_norm |-> NormDen, snare_energy_norm |-> 3,
      hihat_energy_norm |-> 3]]
SpacedConfigs ==
  [difficulty_config :
     [kick_threshold : {3}, snare_threshold : {3}, hihat_threshold : {3},
      min_interval : {ShortIntervalMs * MsUnits, (ShortIntervalMs + 1) * MsUnits},
      note_density : {[num |-> 1, den |-> 1]}],
   mapping : Mappings]

SpacedInit ==
  /\ ChartIdle
  /\ FuseIdle
  /\ NormIdle
  /\ MainIdle
  /\ FilterIdle
  /\ ValidateIdle
  /\ analysis_data \in
       {[exists |-> FALSE, events |-> <<>>]} \cup
       {[exists |-> TRUE, events |-> es] :
          es \in {s \in SeqsUpTo(SpacedEvents, MaxSpacedEvents) :
                    NonDecreasingTime(s)} \cup {NineKicks}}
  /\ metadata \in {[exists |-> FALSE, duration |-> 0],
                    [exists |-> TRUE, duration |-> 2 * SongDuration]}
  /\ config \in SpacedConfigs
  /\ chart = NoChart
  /\ found_issues = <<>>
  /\ chart_file \in {[exists |-> FALSE, chart |-> NoChart],
                      [exists |-> TRUE, chart |-> EarlierChart]}
  /\ gen_pc = "start"

SpecSpaced == SpacedInit /\ [][GenerateNext]_vars

\* ------------------------------------------------- claims on generate_chart
\* The iteration just taken was on event e with the last accepted time last.
PassesSpacing(e, last) == e.time - last >= difficulty_config.min_interval
KickAbove(e) == e.kick_energy_norm > difficulty_config.kick_threshold
SnareAbove(e) == e.snare_energy_norm > difficulty_config.snare_threshold
HihatAbove(e) == e.hihat_energy_norm > difficulty_config.hihat_threshold
Emitted == Len(notes') = Len(notes) + 1 /\ SubSeq(notes', 1, Len(notes)) = notes
Iterated == scanned' = scanned + 1

\* C1: an event that passes the spacing check with all three normalized
\* energies above their thresholds emits a note whose type is mapping["kick"]
\* and whose velocity is the (recorded) kick energy, whatever the sizes of the
\* snare and hihat energies.
C1_KickPriority ==
  [][(Iterated /\ PassesSpacing(event', last_time)
        /\ KickAbove(event') /\ SnareAbove(event') /\ HihatAbove(event'))
      => /\ Emitted
         /\ notes'[Len(notes')].type = mapping.kick
         /\ notes'[Len(notes')].velocity = RoundVelocity(event'.kick_energy_norm)]_vars

\* C1 witness: a note emitted for an event with all three energies above their
\* thresholds, the kick energy the smallest, under a mapping that tells kick
\* from snare and hihat.
C1_Witness ==
  /\ branch = "note"
  /\ KickAbove(event) /\ SnareAbove(event) /\ HihatAbove(event)
  /\ event.kick_energy_norm < event.snare_energy_norm
  /\ event.kick_energy_norm < event.hihat_energy_norm
  /\ mapping.kick # mapping.snare /\ mapping.kick # mapping.hihat
  /\ notes[Len(notes)].type = mapping.kick

\* C2: adjacent notes are at least min_interval apart, up to the 0.001 s
\* (MsUnits) lost by rounding the note times to milliseconds.
C2_MinSpacing ==
  \A i \in 2..Len(notes) :
    notes[i].time - notes[i - 1].time >= difficulty_config.min_interval - MsUnits

\* C2 witness: two notes whose rounded times are closer than min_interval, so
\* that the tolerance is what makes the statement true.
C2_Witness ==
  /\ Len(notes) = 2
  /\ difficulty_config.min_interval > MsUnits
  /\ notes[2].time - notes[1].time < difficulty_config.min_interval

\* C3: an event that passes the spacing check and exceeds no threshold emits
\* nothing and leaves last_time unchanged; last_time changes only when a note
\* is emitted, and a note's emission sets it to the event's unrounded time.
C3_LastTimeFrame ==
  [][/\ (Iterated /\ PassesSpacing(event', last_time)
           /\ ~KickAbove(event') /\ ~SnareAbove(event') /\ ~HihatAbove(event'))
          => (notes' = notes /\ last_time' = last_time)
     /\ (last_time' # last_time) => Emitted
     /\ Emitted => last_time' = event'.time]_vars

\* C3 witness: after an accepted note, a later event that passes the spacing
\* check and exceeds no threshold, at a time that rounding would change.
C3_Witness ==
  /\ branch = "none"
  /\ Len(notes) = 1
  /\ difficulty_config.min_interval > 0
  /\ last_time < event.time
  /\ RoundMs(event.time) # event.time

\* C4: a note is emitted for an event exactly when the event is at least
\* min_interval after the last accepted one and some energy is strictly above
\* its threshold; the note carries the time rounded to milliseconds,
\* mapping[category] of the first category in the order kick, snare, hihat
\* whose energy is above, and that energy rounded to 2 decimals.
C4_EmitIff ==
  [][Iterated =>
      LET e == event'
          some == KickAbove(e) \/ SnareAbove(e) \/ HihatAbove(e)
          cat == IF KickAbove(e) THEN "kick"
                 ELSE IF SnareAbove(e) THEN "snare" ELSE "hihat"
          norm == IF KickAbove(e) THEN e.kick_energy_norm
                  ELSE IF SnareAbove(e) THEN e.snare_energy_norm
                  ELSE e.hihat_energy_norm
      IN  IF PassesSpacing(e, last_time) /\ some
          THEN notes' = Append(notes, [time |-> RoundMs(e.time),
                                       type |-> mapping[cat],
                                       velocity |-> RoundVelocity(norm)])
          ELSE notes' = notes]_vars

\* C4 witness: a hihat note, emitted for an event whose kick and snare
\* energies equal their thresholds, exactly min_interval after the last
\* accepted event, with a velocity that rounding changed.
C4_Witness ==
  /\ branch = "note"
  /\ Len(notes) = 2
  /\ event.kick_energy_norm = difficulty_config.kick_threshold
  /\ event.snare_energy_norm = difficulty_config.snare_threshold
  /\ notes[2].type = mapping.hihat
  /\ notes[2].velocity * NormDen # event.hihat_energy_norm * 100
  /\ scanned = 2
  /\ difficulty_config.min_interval > 0
  /\ event.time = difficulty_config.min_interval
  /\ notes[2].time # event.time

\* --------------------------------------- claims on combine_beats_and_onsets
\* The rounded value m of the time x: the millisecond nearest to x.
NearestMs(x, m) == m % MsUnits = 0 /\ 2 * Abs(x - m) <= MsUnits
Ascending(seq) == \A i \in 1..Len(seq) : \A j \in 1..Len(seq) : i < j => seq[i] < seq[j]
FarFromOnsets(b) == \A i \in 1..Len(onset_times) : Abs(b - onset_times[i]) >= tolerance
KeptBeats == SelectSeq(beat_times, FarFromOnsets)

\* C5: the merge keeps every onset time and appends a beat time exactly when
\* no onset time is strictly nearer than tolerance to it (a beat exactly
\* tolerance from its nearest onset is appended): the list merged by the loop
\* is the onset times followed by those beats, and nothing else reaches the
\* rounding step.
C5_MergeRule ==
  /\ fuse_pc = "loop" =>
       SubSeq(combined_times, 1, Len(onset_times)) = onset_times
  /\ fuse_pc = "round" => combined_times = onset_times \o KeptBeats

\* C5 witness: the loop has ended having appended a beat exactly tolerance
\* away from an onset and dropped a beat nearer than that.
C5_Witness ==
  /\ fuse_pc = "round"
  /\ tolerance > 0
  /\ Len(onset_times) >= 1 /\ Len(beat_times) = 2
  /\ Len(combined_times) = Len(onset_times) + 1
  /\ \E i \in 1..Len(onset_times) :
       Abs(combined_times[Len(combined_times)] - onset_times[i]) = tolerance

\* C6 as stated: every onset time is an entry of the fused result, and the
\* result is no longer than the two inputs together.
C6_OnsetsVerbatim ==
  fuse_pc = "done" =>
    /\ \A i \in 1..Len(onset_times) : onset_times[i] \in Range(combined_times)
    /\ Len(combined_times) <= Len(onset_times) + Len(beat_times)

\* C6 amended: every onset time appears in the fused result rounded to the
\* nearest millisecond, and the result is no longer than the two inputs together.
C6_OnsetsRounded ==
  fuse_pc = "done" =>
    /\ \A i \in 1..Len(onset_times) :
         \E j \in 1..Len(combined_times) : NearestMs(onset_times[i], combined_times[j])
    /\ Len(combined_times) <= Len(onset_times) + Len(beat_times)

\* C6 witness: a result that holds an onset only in rounded form and is
\* shorter than the inputs together.
C6_Witness ==
  /\ fuse_pc = "done" /\ call = 1
  /\ \E i \in 1..Len(onset_times) : onset_times[i] \notin Range(combined_times)
  /\ Len(beat_times) >= 1
  /\ 1 < Len(combined_times)
  /\ Len(combined_times) < Len(onset_times) + Len(beat_times)

\* C7: fusing the fused result again, as the beat times, with no onsets and
\* the same tolerance, returns the same sequence.
C7_Idempotent ==
  (fuse_pc = "done" /\ call = 2) => combined_times = first_result

\* C7 witness: the second call has returned a result with two entries nearer
\* to each other than the tolerance.
C7_Witness ==
  /\ fuse_pc = "done" /\ call = 2
  /\ Len(combined_times) >= 2
  /\ combined_times[2] - combined_times[1] < tolerance

\* C8 as stated, for ascending inputs: no onsets give the beat times, no
\* beats give the onset times, and tolerance 0 gives the plain union.
C8_EdgesVerbatim ==
  (fuse_pc = "done" /\ call = 1 /\ Ascending(beat_times) /\ Ascending(onset_times)) =>
    /\ onset_times = <<>> => combined_times = beat_times
    /\ beat_times = <<>> => combined_times = onset_times
    /\ tolerance = 0 => Range(combined_times) = Range(beat_times) \cup Range(onset_times)

\* The result is the sorted set of the times rounded to milliseconds.
RoundedSetOf(times) ==
  /\ Ascending(combined_times)
  /\ \A x \in times : \E j \in 1..Len(combined_times) : NearestMs(x, combined_times[j])
  /\ \A j \in 1..Len(combined_times) : \E x \in times : NearestMs(x, combined_times[j])

\* C8 amended: with no onsets the result is the beat times rounded to
\* milliseconds, deduplicated and sorted; with no beats it is the onset times
\* so treated; with tolerance 0 it is the union of the rounded beat and onset
\* times, so that times rounding to the same millisecond are merged too.
C8_EdgesRounded ==
  (fuse_pc = "done" /\ call = 1) =>
    /\ onset_times = <<>> => RoundedSetOf(Range(beat_times))
    /\ beat_times = <<>> => RoundedSetOf(Range(onset_times))
    /\ tolerance = 0 => RoundedSetOf(Range(beat_times) \cup Range(onset_times))

\* C8 witness: tolerance 0, and a beat and an onset that differ but round to
\* the same millisecond, merged into one entry.
C8_Witness ==
  /\ fuse_pc = "done" /\ call = 1
  /\ tolerance = 0
  /\ Len(beat_times) = 1 /\ Len(onset_times) = 1
  /\ beat_times[1] # onset_times[1]
  /\ Len(combined_times) = 1

\* C9: the returned sequence holds whole milliseconds only and is strictly
\* ascending with entries at least 0.001 s apart, whatever the order and the
\* duplicates of the inputs.
C9_SortedMsDistinct ==
  fuse_pc = "done" =>
    /\ \A i \in 1..Len(combined_times) : combined_times[i] % MsUnits = 0
    /\ \A i \in 1..Len(combined_times) : \A j \in 1..Len(combined_times) :
         i < j => combined_times[j] - combined_times[i] >= MsUnits

\* C9 witness: descending onsets and a duplicated beat, returned as two
\* entries.
C9_Witness ==
  /\ fuse_pc = "done" /\ call = 1
  /\ Len(onset_times) = 2 /\ onset_times[1] > onset_times[2]
  /\ Len(beat_times) = 2 /\ beat_times[1] = beat_times[2]
  /\ Len(combined_times) = 2

\* --------------------------------------------- claims on normalize_energies
\* The band's statement, for its raw field, its normalized field and the
\* maximum used for it.
BandNormalized(raw, norm, mx) ==
  LET idx == 1..Len(drum_events)
      allZero == \A i \in idx : drum_events[i][raw] = 0
  IN  /\ \A i \in idx :
           /\ drum_events[i][norm].den > 0
           /\ 0 <= drum_events[i][norm].num
           /\ drum_events[i][norm].num <= drum_events[i][norm].den
      /\ ~allZero => \E i \in idx : drum_events[i][norm].num = drum_events[i][norm].den
      /\ allZero => (mx = 1 /\ \A i \in idx : drum_events[i][norm].num = 0)

\* C10: on a non-empty event list with non-negative raw energies the call
\* returns without raising, and for each band every norm lies in [0, 1]; a
\* band whose maximum is not zero has an event of norm exactly 1.0, and a band
\* that is zero throughout gets the maximum 1.0 and norms that are all 0.
C10_NormBounds ==
  /\ (norm_pc = "raised") => drum_events = <<>>
  /\ (norm_pc = "done") =>
       /\ BandNormalized("kick_energy", "kick_energy_norm", max_kick)
       /\ BandNormalized("snare_energy", "snare_energy_norm", max_snare)
       /\ BandNormalized("hihat_energy", "hihat_energy_norm", max_hihat)

\* C10 witness: two normalized events, the kick band zero throughout, the
\* snare band with one event at 1.0 and the other strictly inside (0, 1).
C10_Witness ==
  /\ norm_pc = "done"
  /\ Len(drum_events) = 2
  /\ drum_events[1].kick_energy = 0 /\ drum_events[2].kick_energy = 0
  /\ max_kick = 1
  /\ drum_events[1].snare_energy_norm = Quotient(1, 2)
  /\ drum_events[2].snare_energy_norm = Quotient(2, 2)

\* ------------------------------------------------ claims on empty sequences
\* C11: an empty event sequence is a valid input of the stages after the
\* detection: normalize_energies on an empty list returns without raising,
\* and the analysis run completes without error when no candidate timestamp
\* was detected.
C11_EmptyIsValid ==
  (main_pc # "idle" /\ Len(drum_events) = 0) =>
     (norm_pc # "raised" /\ main_pc # "raised")

\* ------------------------------------------- claims on apply_density_filter
Filtering == filter_pc = "done" /\ target_density.num < target_density.den
FloorOfProduct(n, d) == (n * d.num) \div d.den

\* C12 as stated: for every time-ascending note sequence, the empty one
\* included, and every density d in (0, 1) the filter returns exactly
\* max(1, floor(len(notes) * d)) notes, in ascending time order.
C12_ExactCount ==
  Filtering =>
    /\ Len(filtered_notes) = Max(1, FloorOfProduct(Len(input_notes), target_density))
    /\ NonDecreasingTime(filtered_notes)

\* C12 amended: for every non-empty time-ascending note sequence and every
\* density d in (0, 1) the filter returns exactly max(1, floor(len(notes) * d))
\* notes, and for the empty sequence it returns the empty sequence; the
\* result is in ascending time order.
C12_ExactCountNonEmpty ==
  Filtering =>
    /\ Len(input_notes) > 0 =>
         Len(filtered_notes) = Max(1, FloorOfProduct(Len(input_notes), target_density))
    /\ Len(input_notes) = 0 => filtered_notes = <<>>
    /\ NonDecreasingTime(filtered_notes)

\* C12 witness: a single note filtered at density 1/4 is kept, the floor of
\* the product being 0.
C12_Witness ==
  /\ Filtering
  /\ Len(input_notes) = 1
  /\ target_density = [num |-> 1, den |-> 4]
  /\ filtered_notes = input_notes

\* The number of input notes that go before note i in the order "higher
\* velocity first, and among equal velocities the earlier in the input".
Outranking(i) ==
  Cardinality({j \in 1..Len(input_notes) :
                 \/ input_notes[j].velocity > input_notes[i].velocity
                 \/ /\ input_notes[j].velocity = input_notes[i].velocity
                    /\ j < i})
KeptPositions ==
  {i \in 1..Len(input_notes) :
     Outranking(i) < Max(1, FloorOfProduct(Len(input_notes), target_density))}
Count(seq, n) == Cardinality({i \in 1..Len(seq) : seq[i] = n})

\* C13: for d < 1 the filter keeps the targetCount highest-velocity notes:
\* every kept note has a velocity at least that of every dropped note, among
\* notes of equal velocity at the cut the ones earlier in the input are kept,
\* the result holds exactly the kept notes, and it is in time order.
C13_KeepsLoudest ==
  Filtering =>
    /\ \A i \in KeptPositions : \A j \in (1..Len(input_notes)) \ KeptPositions :
         /\ input_notes[i].velocity >= input_notes[j].velocity
         /\ input_notes[i].velocity = input_notes[j].velocity => i < j
    /\ Len(filtered_notes) = Cardinality(KeptPositions)
    /\ \A n \in Range(input_notes) \cup Range(filtered_notes) :
         Count(filtered_notes, n) =
           Cardinality({i \in KeptPositions : input_notes[i] = n})
    /\ NonDecreasingTime(filtered_notes)

\* C13 witness: velocities 0.9, 0.2, 0.7 at times 0, 1, 2 with d = 2/3 give
\* the notes at times 0 and 2.
C13_Witness ==
  /\ Filtering
  /\ target_density = [num |-> 2, den |-> 3]
  /\ Len(input_notes) = 3
  /\ [i \in 1..3 |-> input_notes[i].velocity] = <<90, 20, 70>>
  /\ [i \in 1..3 |-> input_notes[i].time] = <<0, 1000 * MsUnits, 2000 * MsUnits>>
  /\ filtered_notes = <<input_notes[1], input_notes[3]>>

\* ------------------------------------------------- claims on validate_chart
Returned == validate_pc = "returned"

\* C17: validate_chart on a chart with no notes returns exactly one issue,
\* whatever the audio duration, and that issue is the one for the empty
\* chart: no other check has been made.
C17_EmptyChartOneIssue ==
  (Returned /\ chart_notes = <<>>) =>
     (Len(issues) = 1 /\ issues[1].check = "empty")

\* C17 witness: the empty chart validated against the longer duration.
C17_Witness ==
  /\ Returned
  /\ chart_notes = <<>>
  /\ audio_duration = 2 * StepUnits
  /\ Len(issues) = 1

\* Whether the note at position i of the validated chart fails a check.
Fails(i, check) ==
  CASE check = "negative_time" -> chart_notes[i].time < 0
    [] check = "beyond_duration" -> chart_notes[i].time > audio_duration
    [] check = "velocity_range" ->
         chart_notes[i].velocity < 0 \/ chart_notes[i].velocity > 100
    [] check = "invalid_type" -> chart_notes[i].type \notin {"left", "right", "both"}
    [] check = "interval_short" ->
         i > 1 /\ chart_notes[i].time - chart_notes[i - 1].time < 150 * MsUnits
Checks == {"negative_time", "beyond_duration", "velocity_range", "invalid_type",
           "interval_short"}
IssuesOf(i, check) ==
  Cardinality({k \in 1..Len(issues) : issues[k] = Issue(check, i)})

\* C18: for a non-empty chart validate_chart returns, and the returned list
\* holds exactly one issue for each note and each check that the note fails
\* (time < 0, time > audioDuration, velocity outside [0, 1], type not
\* left/right/both, interval to the previous note below 0.15 s) and no other
\* issue, so a note failing several checks has one issue per failed check.
C18_OneIssuePerFailedCheck ==
  (Returned /\ chart_notes # <<>>) =>
     /\ \A i \in 1..Len(chart_notes) : \A c \in Checks :
          IssuesOf(i, c) = IF Fails(i, c) THEN 1 ELSE 0
     /\ Len(issues) =
          Cardinality({ic \in (1..Len(chart_notes)) \X Checks : Fails(ic[1], ic[2])})

\* C18 witness: after a clean note at 0, a note at -1/16 s with velocity 1.01
\* and type "up": four issues for it, one per failed check, in the order of
\* the checks.
C18_Witness ==
  /\ Returned
  /\ Len(chart_notes) = 2
  /\ chart_notes[1] = [time |-> 0, type |-> "left", velocity |-> 100]
  /\ chart_notes[2] = [time |-> 0 - StepUnits, type |-> "up", velocity |-> 101]
  /\ issues = <<Issue("negative_time", 2), Issue("velocity_range", 2),
                Issue("invalid_type", 2), Issue("interval_short", 2)>>

\* ------------------------------------------------ claims on chart metadata
NotesOfType(ns, label) == {i \in 1..Len(ns) : ns[i].type = label}
Span(ns) == ns[Len(ns)].time - ns[1].time
CountsDescribe(md, ns) ==
  /\ md.leftCount = Cardinality(NotesOfType(ns, "left"))
  /\ md.rightCount = Cardinality(NotesOfType(ns, "right"))
  /\ md.bothCount = Cardinality(NotesOfType(ns, "both"))
  /\ md.leftCount + md.rightCount + md.bothCount = Len(ns)
\* The average of the consecutive time differences of ns is their sum, the
\* span from the first note to the last, divided by their number.
IsMeanGap(average, ns) ==
  IF Len(ns) < 2 THEN average = 0 ELSE average * (Len(ns) - 1) = Span(ns)
IsRoundedMeanGap(average, ns) ==
  IF Len(ns) < 2 THEN average = 0
  ELSE /\ average % MsUnits = 0
       /\ 2 * Abs(average * (Len(ns) - 1) - Span(ns)) <= (Len(ns) - 1) * MsUnits

\* C14 as stated: in the chart returned by generate_chart noteCount equals
\* len(notes), the three counts are the numbers of notes of each type and add
\* up to len(notes), and averageInterval equals the mean of the consecutive
\* note-time differences, or 0 with fewer than 2 notes.
C14_MetadataExact ==
  (gen_pc = "generated") =>
     /\ chart.metadata.noteCount = Len(chart.notes)
     /\ CountsDescribe(chart.metadata, chart.notes)
     /\ IsMeanGap(chart.metadata.averageInterval, chart.notes)

\* C14 amended: as above, with averageInterval the mean of the consecutive
\* note-time differences rounded to 3 decimals (a whole number of
\* milliseconds within half a millisecond of the mean), or 0 with fewer than
\* 2 notes.
C14_MetadataRounded ==
  (gen_pc = "generated") =>
     /\ chart.metadata.noteCount = Len(chart.notes)
     /\ CountsDescribe(chart.metadata, chart.notes)
     /\ IsRoundedMeanGap(chart.metadata.averageInterval, chart.notes)

\* C14 witness: three notes of three types at 0, 0 and 0.001 s, whose mean
\* gap of 0.0005 s is not a whole number of milliseconds.
C14_Witness ==
  /\ gen_pc = "generated"
  /\ Len(chart.notes) = 3
  /\ [i \in 1..3 |-> chart.notes[i].time] = <<0, 0, MsUnits>>
  /\ {chart.notes[i].type : i \in 1..3} = {"left", "right", "both"}
  /\ chart.metadata.leftCount = 1
  /\ chart.metadata.averageInterval % MsUnits = 0

\* C15: in the chart persisted by generate_for_difficulty, also when the
\* density filter has removed notes, noteCount, leftCount, rightCount,
\* bothCount and averageInterval describe the persisted notes: the counts
\* partition them by type and averageInterval is their mean gap (to the
\* millisecond).
C15_PersistedMetadata ==
  (gen_pc = "returned True") =>
     /\ chart_file.chart.metadata.noteCount = Len(chart_file.chart.notes)
     /\ CountsDescribe(chart_file.chart.metadata, chart_file.chart.notes)
     /\ IsRoundedMeanGap(chart_file.chart.metadata.averageInterval,
                         chart_file.chart.notes)

\* --------------------------------------- claims on generate_for_difficulty
Persisted == gen_pc = "returned True"
Filtered == config.difficulty_config.note_density.num < config.difficulty_config.note_density.den

\* C16: the notes of every chart persisted by generate_for_difficulty are in
\* non-decreasing time order, whether or not the density filter ran.
C16_PersistedInTimeOrder ==
  Persisted =>
    \A i \in 1..Len(chart_file.chart.notes) : \A j \in 1..Len(chart_file.chart.notes) :
       i < j => chart_file.chart.notes[i].time <= chart_file.chart.notes[j].time

\* C16 witness: a persisted chart of two notes at different times, the
\* earlier one the quieter, kept by the filter out of three.
C16_Witness ==
  /\ Persisted
  /\ Filtered
  /\ Len(analysis_data.events) = 3
  /\ Len(chart_file.chart.notes) = 2
  /\ chart_file.chart.notes[1].time < chart_file.chart.notes[2].time
  /\ chart_file.chart.notes[1].velocity < chart_file.chart.notes[2].velocity

Ended == gen_pc \in {"returned False", "raised", "returned True"}
InputsPresent == analysis_data.exists /\ metadata.exists

\* C19: generate_for_difficulty writes the chart file exactly when both
\* input files are present: a run with the analysis file or the metadata
\* file missing ends without the chart file having been created or changed;
\* with both present the run ends in no other way than with the file written,
\* the write comes after validation, and the file holds the validated chart
\* whatever the number of issues found.
C19_WrittenIffInputsPresent ==
  /\ [](Ended => (Persisted <=> InputsPresent))
  /\ [](Persisted => chart_file = [exists |-> TRUE, chart |-> chart])
  /\ [][chart_file' # chart_file =>
          /\ InputsPresent
          /\ gen_pc = "validated"
          /\ found_issues = ValidateChart(chart.notes, metadata.duration)
          /\ gen_pc' = "returned True"]_vars

\* C19 witness: the file of an earlier run replaced by a chart of three
\* notes for which validation returned two issues.
C19_Witness ==
  /\ Persisted
  /\ Len(found_issues) = 2
  /\ Len(chart.notes) = 3
  /\ chart_file = [exists |-> TRUE, chart |-> chart]

\* The notes generate_chart returned in this run, before any filtering.
ClassifierNotes ==
  ScanFrom(analysis_data.events, 1, Sentinel, <<>>, config.difficulty_config,
           config.mapping)
AfterFilter == gen_pc \in {"filtered", "validated", "returned True"}

\* Whether sub, from position i on, is found in order in seq from position j on.
RECURSIVE FoundInOrder(_, _, _, _)
FoundInOrder(sub, i, seq, j) ==
  IF i > Len(sub) THEN TRUE
  ELSE IF j > Len(seq) THEN FALSE
  ELSE IF sub[i] = seq[j] THEN FoundInOrder(sub, i + 1, seq, j + 1)
  ELSE FoundInOrder(sub, i, seq, j + 1)

SpacingKept(ns) ==
  \A i \in 2..Len(ns) :
    ns[i].time - ns[i - 1].time >= config.difficulty_config.min_interval - MsUnits

\* C20 as stated: after the density step (any density in (0, 1]) the notes of
\* the chart are a subsequence of the classifier's notes, in time order, and
\* adjacent notes are at least min_interval apart, up to the 0.001 s of the
\* rounding.
C20_SubsequenceSpacing ==
  AfterFilter =>
    /\ FoundInOrder(chart.notes, 1, ClassifierNotes, 1)
    /\ NonDecreasingTime(chart.notes)
    /\ SpacingKept(chart.notes)

\* C20 amended: after the density step the notes of the chart are notes of
\* the classifier, none added, altered or taken more often than the
\* classifier gave it, in time order (notes of equal rounded time possibly in
\* another order than the classifier's), and adjacent notes are at least
\* min_interval apart, up to the 0.001 s of the rounding.
C20_SelectionSpacing ==
  AfterFilter =>
    /\ \A n \in Range(chart.notes) : Count(chart.notes, n) <= Count(ClassifierNotes, n)
    /\ NonDecreasingTime(chart.notes)
    /\ SpacingKept(chart.notes)
    /\ ~Filtered => chart.notes = ClassifierNotes

\* C20 witness: of three notes 3 ticks (1.46 ms) apart, the minimum spacing,
\* the filter has kept two, which are less than min_interval apart after
\* rounding and within the tolerance.
C20_Witness ==
  /\ AfterFilter
  /\ Filtered
  /\ config.difficulty_config.min_interval = 3 * TickUnits
  /\ Len(ClassifierNotes) = 3
  /\ Len(chart.notes) = 2
  /\ chart.notes[2].time - chart.notes[1].time < config.difficulty_config.min_interval

\* ------------------------------------ claims on the spacing of a valid chart
\* C21: for a chart that generate_chart produced from time-ascending events
\* with a minimum spacing of at least 0.15 s that is a whole number of
\* milliseconds, validate_chart reports no interval that is too short.
C21_NoShortInterval ==
  (gen_pc \in {"validated", "returned True"}) =>
     \A k \in 1..Len(found_issues) : found_issues[k].check # "interval_short"

====
